---- MODULE Spec2Model ----
(***************************************************************************)
(* ERPNext JoFotara integration: the send protocol of api/invoices.py and  *)
(* api/client.py (build, snapshot, submit, reconcile) and the amounts of   *)
(* api/transform.py, as state machines.                                    *)
(*                                                                         *)
(* Texts are abstract: a text is the record of what it was rendered from   *)
(* together with its length, and slicing s[:n] keeps the origin and cuts   *)
(* the length to n.  Money is an integer number of millionths (1e-6), so   *)
(* that qty (tenths) * rate (thousandths) * percent / 100 is exact, as it *)
(* is in Python's Decimal.                                                 *)
(***************************************************************************)
EXTENDS Integers, Sequences, FiniteSets, TLC

(***************************************************************************)
(* Bounds of the model.                                                    *)
(***************************************************************************)
\* send attempts (send_now calls and on_submit hooks) per invoice under Spec
MaxAttempts == 2
\* send attempts per invoice under SpecConc (two invoices interleaved)
ConcAttempts == 1
\* most lines of an invoice whose amounts are computed
MaxLines == 2
\* most characters of an item name that is serialized and minified
MaxNameLen == 4

(***************************************************************************)
(* Program constants.                                                      *)
(***************************************************************************)
\* json.dumps(...)[:1400]
PreviewLimit == 1400
\* err[:1000]
ErrorLimit == 1000
\* 1 <= len(activity) <= 15
MaxActivityDigits == 15
\* resp.status_code >= 400
HttpErrorFrom == 400
\* len("JoFotara HTTP 400: ")
HttpMsgPrefixLen == 19
\* len("JoFotara network error: ")
NetMsgPrefixLen == 24
\* lengths of the three frappe.throw messages of _build_headers
OAuthMsgLen == 77
CredsMsgLen == 63
ActivityMsgLen == 69

Min(a, b) == IF a < b THEN a ELSE b

Invoices == {"INV1", "INV2"}
\* the invoice of the sequential specification
SeqInvoices == {"INV1"}

(***************************************************************************)
(* Response envelopes: the JSON object of the authority, projected on the  *)
(* field names the code reads, plus the "text" key of the fallback         *)
(* wrapper {"text": resp.text}.                                            *)
(***************************************************************************)
UuidKeys == <<"EINV_INV_UUID", "UUID", "invoice_uuid", "invoiceUUID", "id">>
QrKeys == <<"EINV_QR", "qr", "qrCode", "qr_code">>
Range(s) == {s[k] : k \in 1..Len(s)}
Keys == Range(UuidKeys) \cup Range(QrKeys) \cup {"text"}

EmptyFields == [k \in Keys |-> ""]
OneField(k, v) == [EmptyFields EXCEPT ![k] = v]

\* {}, every envelope with one known field, and the one with the first UUID
\* name and the first QR name
BothFields == [OneField("EINV_INV_UUID", "X") EXCEPT !["EINV_QR"] = "Y"]
JsonEnvelopes ==
    {EmptyFields, BothFields} \cup {OneField(k, "X") : k \in Keys \ {"text"}}

\* the lengths json.dumps(data) may have: at the preview limit and above it
BodyLens == {PreviewLimit, PreviewLimit + 1}
LongBodies == {PreviewLimit + 1}

NoData == [fields |-> EmptyFields, len |-> 0]

\* resp.json() or, when the body is not JSON, {"text": resp.text or ""}
ParseBody(is_json, fields, text, len) ==
    IF is_json THEN [fields |-> fields, len |-> len]
    ELSE [fields |-> OneField("text", text), len |-> len]

\* resp.get(a) or resp.get(b) or ... or "": the first non-empty value
RECURSIVE FirstNonEmpty(_, _)
FirstNonEmpty(fields, keys) ==
    IF keys = <<>> THEN ""
    ELSE IF fields[Head(keys)] # "" THEN fields[Head(keys)]
    ELSE FirstNonEmpty(fields, Tail(keys))

\* the last field name that has a value: not what the code does
ExtractUuid_LastNonEmpty(data) ==
    LET set == {k \in 1..Len(UuidKeys) : data.fields[UuidKeys[k]] # ""}
    IN  IF set = {} THEN ""
        ELSE data.fields[UuidKeys[CHOOSE k \in set : \A j \in set : j <= k]]
ExtractUuid(data) == FirstNonEmpty(data.fields, UuidKeys)
ExtractQr(data) == FirstNonEmpty(data.fields, QrKeys)

\* "Submitted" if (uuid or qr) else "Error"
ReconciledStatus_UuidOnly(uuid, qr) ==
    IF uuid # "" THEN "Submitted" ELSE "Error"
\* Submitted whatever the envelope holds: not what the code does
ReconciledStatus_Always(uuid, qr) == "Submitted"
ReconciledStatus(uuid, qr) ==
    IF uuid # "" \/ qr # "" THEN "Submitted" ELSE "Error"

(***************************************************************************)
(* Texts kept on records.                                                  *)
(***************************************************************************)
\* json.dumps(resp, ensure_ascii=False)[:1400]
PreviewOf_Whole(data) ==
    [set |-> TRUE, data |-> data, len |-> data.len]
PreviewOf(data) ==
    [set |-> TRUE, data |-> data, len |-> Min(data.len, PreviewLimit)]
NoPreview == [set |-> FALSE, data |-> NoData, len |-> 0]

\* exceptions: kind, code (which configuration message, or the HTTP status),
\* the body an HTTP error message embeds, and the length of str(e)
NoExc == [kind |-> "none", code |-> 0, data |-> NoData, len |-> 0]
ConfigExc(code) ==
    [kind |-> "config", code |-> code, data |-> NoData,
     len |-> CASE code = 1 -> OAuthMsgLen
               [] code = 2 -> CredsMsgLen
               [] OTHER -> ActivityMsgLen]
NetworkExc(elen) ==
    [kind |-> "network", code |-> 0, data |-> NoData, len |-> NetMsgPrefixLen + elen]
HttpExc(status, data) ==
    [kind |-> "http", code |-> status, data |-> data, len |-> HttpMsgPrefixLen + data.len]
TransformExc == [kind |-> "transform", code |-> 0, data |-> NoData, len |-> 1]

NoReply == [status |-> 0, data |-> NoData]

\* frappe.throw when resp.status_code >= 400
HttpFails_Never(status) == FALSE
HttpFails(status) == status >= HttpErrorFrom

\* err[:1000]
ErrorText(e) == [e EXCEPT !.len = Min(e.len, ErrorLimit)]

\* lengths of str(e) of a requests exception
NetErrLens == {1, ErrorLimit}
LongErrors == {ErrorLimit}

(***************************************************************************)
(* JoFotara Settings as _build_headers reads it.                           *)
(***************************************************************************)
Digits == {"0", "1", "2", "3", "4", "5", "6", "7", "8", "9"}
IsDigit(c) == c \in Digits
\* re.sub(r"\D", "", raw)
StripNonDigits(raw) == SelectSeq(raw, IsDigit)

Ones(n) == [k \in 1..n |-> "1"]
ActivitySamples ==
    {<<>>, <<"-">>, <<"1", "-", "2">>, Ones(MaxActivityDigits),
     Ones(MaxActivityDigits + 1)}

SettingsDomain ==
    [use_oauth2 : {0, 1}, client_id : {"", "CID"}, secret_key : {"", "SK"},
     device_user : {"", "DEV"}, device_secret : {"", "DS"},
     activity_number : ActivitySamples]

HeadersError(code) ==
    [err |-> code, Client_Id |-> "", Secret_Key |-> "", Activity_Number |-> <<>>]

BuildHeaders(s) ==
    LET oauth_missing ==
            s.use_oauth2 = 1 /\ (s.client_id = "" \/ s.secret_key = "")
        client_id ==
            IF s.use_oauth2 = 0 /\ s.client_id = "" /\ s.device_user # ""
            THEN s.device_user ELSE s.client_id
        client_secret ==
            IF s.use_oauth2 = 0 /\ s.secret_key = "" /\ s.device_secret # ""
            THEN s.device_secret ELSE s.secret_key
        activity == StripNonDigits(s.activity_number)
    IN  IF oauth_missing THEN HeadersError(1)
        ELSE IF client_id = "" \/ client_secret = "" THEN HeadersError(2)
        ELSE IF ~(1 <= Len(activity) /\ Len(activity) <= MaxActivityDigits)
             THEN HeadersError(3)
        ELSE [err |-> 0, Client_Id |-> client_id, Secret_Key |-> client_secret,
              Activity_Number |-> activity]

\* the toggle the hook reads: the first truthy of the two field names
ToggleDomain == [send_on_submit : {0, 1}, auto_send_on_submit : {0, 1}]
\* a hook that sends whatever the toggles say: not what the code does
HookEnabled_Always(s) == TRUE
HookEnabled(s) ==
    IF s.send_on_submit # 0 THEN s.send_on_submit # 0
    ELSE s.auto_send_on_submit # 0

(***************************************************************************)
(* The custom fields of Sales Invoice.  install.py creates the first four; *)
(* the others exist only where an operator added them.                     *)
(***************************************************************************)
InstalledFields ==
    {"jofotara_status", "jofotara_uuid", "jofotara_qr", "jofotara_qr_image"}
OptionalFields ==
    {"jofotara_error", "jofotara_sent_at", "jofotara_xml", "last_xml"}
Schemas == {InstalledFields, InstalledFields \cup OptionalFields}

\* uuid.uuid4()
GenUUIDs == {"g1", "g2"}
\* getattr(doc, "jofotara_uuid", "") or "", else a fresh uuid4
UuidValue(stored, gen) == IF stored # "" THEN stored ELSE gen

(***************************************************************************)
(* Amounts of build_invoice_xml.  A quantity is a number of tenths, a rate *)
(* or a discount a number of thousandths, a VAT rate a whole percent;      *)
(* inside the build every amount is a number of millionths, and an amount  *)
(* written to the XML is a number of thousandths.                          *)
(***************************************************************************)
\* _global_vat_rate falls back to Decimal("16.0")
DefaultVat == 16

Abs(x) == IF x < 0 THEN -x ELSE x

\* _q3: quantize(Decimal("0.001"), rounding=ROUND_HALF_UP), ties away from zero
Q3(x) == IF x >= 0 THEN (x + 500) \div 1000 ELSE -((-x + 500) \div 1000)
\* _fmt(x): the 3-decimal text of _q3(x), as its number of thousandths
Fmt(x) == Q3(x)
\* _fmt_qty(x): one decimal; a quantity of tenths is written as it is
FmtQty(q) == q

\* first rate that is not zero, else 0
RECURSIVE FirstNonZero(_)
FirstNonZero(rates) ==
    IF rates = <<>> THEN 0
    ELSE IF Abs(Head(rates)) > 0 THEN Head(rates)
    ELSE FirstNonZero(Tail(rates))

\* _parse_item_vat_rate(item): the item's own rate, 0 when it has none
ParseItemVatRate(it) == FirstNonZero(it.item_tax_rate)
\* _global_vat_rate(doc): the first tax row's rate, 16 when there is none
GlobalVatRate(d) ==
    IF FirstNonZero(d.taxes) # 0 THEN FirstNonZero(d.taxes) ELSE DefaultVat

\* one pass of the loop over doc.items: the line as kept in lines[]
LineOf(d, it) ==
    LET qty == IF d.is_return THEN Abs(it.qty) ELSE it.qty
        rate == IF d.is_return THEN Abs(it.rate) ELSE it.rate
        line_disc == IF d.is_return THEN Abs(it.discount_amount)
                     ELSE it.discount_amount
        vat_rate == IF ParseItemVatRate(it) # 0 THEN ParseItemVatRate(it)
                    ELSE GlobalVatRate(d)
        net == qty * rate * 100 - line_disc * 1000
        line_net == IF net < 0 THEN 0 ELSE net
    IN  [qty |-> qty, unit_price |-> rate, line_disc |-> line_disc,
         vat_rate |-> vat_rate, line_net |-> line_net,
         line_vat |-> (line_net * vat_rate) \div 100]

LinesOf(d) == [k \in 1..Len(d.items) |-> LineOf(d, d.items[k])]

RECURSIVE SumOf(_)
SumOf(s) == IF s = <<>> THEN 0 ELSE Head(s) + SumOf(Tail(s))

\* the amounts the build writes: header allowance, header TaxTotal,
\* LegalMonetaryTotal, and each InvoiceLine
InvoiceAmounts(d) ==
    LET lines == LinesOf(d)
        net_sum == SumOf([k \in 1..Len(lines) |-> lines[k].line_net])
        vat_sum == SumOf([k \in 1..Len(lines) |-> lines[k].line_vat])
        header_discount == d.discount_amount * 1000
        net_after_header_disc ==
            IF net_sum - header_discount < 0 THEN 0 ELSE net_sum - header_discount
        inclusive_total == net_after_header_disc + vat_sum
        payable == inclusive_total
    IN  [is_return |-> d.is_return,
         AllowanceChargeAmount |-> Fmt(header_discount),
         TaxAmount |-> Fmt(vat_sum),
         TaxExclusiveAmount |-> Fmt(net_after_header_disc),
         TaxInclusiveAmount |-> Fmt(inclusive_total),
         AllowanceTotalAmount |-> Fmt(header_discount),
         PayableAmount |-> Fmt(payable),
         lines |-> [k \in 1..Len(lines) |->
             [InvoicedQuantity |-> FmtQty(lines[k].qty),
              LineExtensionAmount |-> Fmt(lines[k].line_net),
              TaxAmount |-> Fmt(lines[k].line_vat),
              Percent |-> lines[k].vat_rate,
              PriceAmount |-> Fmt(lines[k].unit_price * 1000),
              AllowanceAmount |-> Fmt(lines[k].line_disc * 1000)]]]

NoAmounts ==
    [is_return |-> FALSE, AllowanceChargeAmount |-> 0, TaxAmount |-> 0,
     TaxExclusiveAmount |-> 0, TaxInclusiveAmount |-> 0,
     AllowanceTotalAmount |-> 0, PayableAmount |-> 0, lines |-> <<>>]

\* one line of 1.0 at 1.000, no discount, the default VAT
SampleDoc ==
    [is_return |-> FALSE, discount_amount |-> 0, taxes |-> <<>>,
     items |-> <<[qty |-> 10, rate |-> 1000, discount_amount |-> 0,
                  item_tax_rate |-> <<>>, item_name |-> <<"a">>]>>]

\* invoices and credit notes of 1..n lines, with signs either way
Items ==
    [qty : {-10, 15}, rate : {-1000, 333}, discount_amount : {-100, 0},
     item_tax_rate : {<<>>, <<0, 4>>}, item_name : {<<"a">>}]
Docs(n) ==
    [is_return : BOOLEAN, discount_amount : {-250, 0, 250}, taxes : {<<>>, <<0, 8>>},
     items : UNION {[1..k -> Items] : k \in 1..n}]

\* the children of the Invoice root in the order the build appends them;
\* raw_activity is activity_number of JoFotara Settings as _activity_number
\* reads it
TopLevelChildren_PaymentFirst(d, raw_activity) ==
    <<"ProfileID", "ID", "UUID", "IssueDate", "InvoiceTypeCode",
      "DocumentCurrencyCode", "TaxCurrencyCode">>
    \o (IF d.is_return THEN <<"BillingReference">> ELSE <<>>)
    \o <<"AdditionalDocumentReference", "AccountingSupplierParty",
         "AccountingCustomerParty">>
    \o (IF d.is_return THEN <<"PaymentMeans">> ELSE <<>>)
    \o (IF StripNonDigits(raw_activity) # <<>>
        THEN <<"SellerSupplierParty">> ELSE <<>>)
    \o <<"AllowanceCharge", "TaxTotal", "LegalMonetaryTotal">>
    \o [k \in 1..Len(d.items) |-> "InvoiceLine"]
TopLevelChildren(d, raw_activity) ==
    <<"ProfileID", "ID", "UUID", "IssueDate", "InvoiceTypeCode",
      "DocumentCurrencyCode", "TaxCurrencyCode">>
    \o (IF d.is_return THEN <<"BillingReference">> ELSE <<>>)
    \o <<"AdditionalDocumentReference", "AccountingSupplierParty",
         "AccountingCustomerParty">>
    \o (IF StripNonDigits(raw_activity) # <<>>
        THEN <<"SellerSupplierParty">> ELSE <<>>)
    \o (IF d.is_return THEN <<"PaymentMeans">> ELSE <<>>)
    \o <<"AllowanceCharge", "TaxTotal", "LegalMonetaryTotal">>
    \o [k \in 1..Len(d.items) |-> "InvoiceLine"]

(***************************************************************************)
(* The serialized XML, as far as a document's texts reach it: a sequence   *)
(* of characters holding one <N>text</N> element per line, the Item Name.  *)
(***************************************************************************)
Whitespace == {" ", "\t", "\n", "\r"}

\* str.strip()
RECURSIVE LStrip(_)
LStrip(s) ==
    IF s # <<>> /\ Head(s) \in Whitespace THEN LStrip(Tail(s)) ELSE s
RECURSIVE RStrip(_)
RStrip(s) ==
    IF s # <<>> /\ s[Len(s)] \in Whitespace
    THEN RStrip(SubSeq(s, 1, Len(s) - 1)) ELSE s
Strip(s) == RStrip(LStrip(s))

\* item_name = (it.item_name or ... or "Item").strip() or "Item"
ItemName(it) ==
    IF Strip(it.item_name) = <<>> THEN <<"I", "t", "e", "m">>
    ELSE Strip(it.item_name)

\* ElementTree escapes &, < and > in the text of an element
RECURSIVE EscapeText(_)
EscapeText(s) ==
    IF s = <<>> THEN <<>>
    ELSE (CASE Head(s) = "&" -> <<"&", "a", "m", "p", ";">>
            [] Head(s) = "<" -> <<"&", "l", "t", ";">>
            [] Head(s) = ">" -> <<"&", "g", "t", ";">>
            [] OTHER -> <<Head(s)>>) \o EscapeText(Tail(s))

\* tostring(inv): no whitespace between the elements
RECURSIVE NameElements(_)
NameElements(items) ==
    IF items = <<>> THEN <<>>
    ELSE <<"<", "N", ">">> \o EscapeText(ItemName(Head(items)))
         \o <<"<", "/", "N", ">">> \o NameElements(Tail(items))
XmlText(d) == NameElements(d.items)

\* _minify_xml, step by step
IsNotBreak(c) == c \notin {"\r", "\n", "\t"}
RECURSIVE CollapseSpaces(_)
CollapseSpaces(s) ==
    IF Len(s) < 2 THEN s
    ELSE IF s[1] = " " /\ s[2] = " " THEN CollapseSpaces(Tail(s))
    ELSE <<Head(s)>> \o CollapseSpaces(Tail(s))
RECURSIVE JoinTags(_)
JoinTags(s) ==
    IF Len(s) < 3 THEN s
    ELSE IF s[1] = ">" /\ s[2] = " " /\ s[3] = "<"
         THEN <<">", "<">> \o JoinTags(SubSeq(s, 4, Len(s)))
    ELSE <<Head(s)>> \o JoinTags(Tail(s))
MinifyXml(s) ==
    IF s = <<>> THEN s
    ELSE JoinTags(CollapseSpaces(Strip(SelectSeq(s, IsNotBreak))))

\* the activity number of a configured site
SampleActivity == Ones(1)

NoXml ==
    [id |-> "", uuid |-> "", amounts |-> NoAmounts, children |-> <<>>,
     str |-> <<>>]
\* xml_min = _minify_xml(xml)
Minified(x) == [x EXCEPT !.str = MinifyXml(@)]

\* File.file_name of the snapshot: f"{doc.name}-ubl.xml"
FileName_Fixed(i) == <<"", "-ubl.xml">>
FileName(i) == <<i, "-ubl.xml">>

(***************************************************************************)
(* Persistent locations, for the record of who wrote what.                 *)
(***************************************************************************)
InvoiceFields ==
    {"jofotara_status", "jofotara_uuid", "jofotara_qr", "jofotara_error",
     "jofotara_sent_at", "jofotara_xml", "comment"}
SettingsFields == {"last_response", "last_xml"}
FileNames == {FileName(i) : i \in Invoices} \cup {FileName_Fixed(i) : i \in Invoices}
Locations ==
    {<<"Sales Invoice", i, f>> : i \in Invoices, f \in InvoiceFields}
    \cup {<<"JoFotara Settings", "", f>> : f \in SettingsFields}
    \cup {<<"File", n[1], n[2]>> : n \in FileNames}

VARIABLES
    \* Sales Invoice fields, per invoice
    jofotara_status, jofotara_uuid, jofotara_qr, jofotara_error,
    jofotara_sent_at, jofotara_xml, n_comments, docstatus,
    \* File documents: file name -> content
    files,
    \* JoFotara Settings fields
    last_response, last_xml,
    \* custom fields that exist (doc.meta.has_field)
    meta,
    \* the Sales Invoice documents as submitted: items, discount, taxes
    doc,
    \* one send per invoice: where it is and what it holds; reply is the HTTP
    \* response the submission received (status 0: none)
    pc, via, xml, resp, exc, reply, requested, attempts,
    \* what the running send read from JoFotara Settings: activity_number
    \* (the build) and whether both on-submit toggles were off (the hook)
    read,
    \* history: writes that raised / were attempted in the running send,
    \* the UUID the last build emitted, and who wrote each location
    failed, attempted, emitted, writers

db == <<jofotara_status, jofotara_uuid, jofotara_qr, jofotara_error,
        jofotara_sent_at, jofotara_xml, n_comments, docstatus, files,
        last_response, last_xml, meta, doc>>
local == <<pc, via, xml, resp, exc, reply, requested, attempts, read>>
hist == <<failed, attempted, emitted, writers>>
vars == <<db, local, hist>>

HasField(f) == f \in meta

NothingRead == [activity_number |-> <<>>, toggles_off |-> FALSE]

\* everything but the documents, the invoice's stored fields and the last
\* preview
InitRest ==
    /\ jofotara_sent_at = [i \in Invoices |-> 0]
    /\ jofotara_xml = [i \in Invoices |-> NoXml]
    /\ n_comments = [i \in Invoices |-> 0]
    /\ docstatus = [i \in Invoices |-> 0]
    /\ files = [n \in FileNames |-> NoXml]
    /\ last_xml = NoXml
    /\ meta \in Schemas
    /\ pc = [i \in Invoices |-> "idle"]
    /\ via = [i \in Invoices |-> "none"]
    /\ xml = [i \in Invoices |-> NoXml]
    /\ resp = [i \in Invoices |-> NoData]
    /\ exc = [i \in Invoices |-> NoExc]
    /\ reply = [i \in Invoices |-> NoReply]
    /\ requested = [i \in Invoices |-> FALSE]
    /\ attempts = [i \in Invoices |-> 0]
    /\ read = [i \in Invoices |-> NothingRead]
    /\ failed = [i \in Invoices |-> {}]
    /\ attempted = [i \in Invoices |-> {}]
    /\ emitted = [i \in Invoices |-> ""]
    /\ writers = [l \in Locations |-> {}]

\* new invoices (the field's default is Pending) and settings never written
Init ==
    /\ jofotara_status = [i \in Invoices |-> "Pending"]
    /\ jofotara_uuid = [i \in Invoices |-> ""]
    /\ jofotara_qr = [i \in Invoices |-> ""]
    /\ jofotara_error = [i \in Invoices |-> NoExc]
    /\ last_response = NoPreview
    /\ doc = [i \in Invoices |-> SampleDoc]
    /\ InitRest

(***************************************************************************)
(* Writes.  fail is the set of writes the database refuses in this step;   *)
(* every db_set sits in a try/except that swallows the exception.          *)
(***************************************************************************)
Faulty(names) == SUBSET names

Wrote(w, locs, i) ==
    [l \in Locations |-> IF l \in locs THEN w[l] \cup {i} ELSE w[l]]

\* _set_status(doc, status, err): one try block around both writes
StatusRaised(fail) == HasField("jofotara_status") /\ "jofotara_status" \in fail
StatusWritten(fail) == HasField("jofotara_status") /\ "jofotara_status" \notin fail
ErrorTried(err, fail) ==
    ~StatusRaised(fail) /\ err.len > 0 /\ HasField("jofotara_error")
ErrorWritten(err, fail) == ErrorTried(err, fail) /\ "jofotara_error" \notin fail

SetStatus(i, status, err, fail) ==
    /\ jofotara_status' =
           IF StatusWritten(fail)
           THEN [jofotara_status EXCEPT ![i] = status] ELSE jofotara_status
    /\ jofotara_error' =
           IF ErrorWritten(err, fail)
           THEN [jofotara_error EXCEPT ![i] = ErrorText(err)] ELSE jofotara_error

SetStatusFailed(err, fail, tag) ==
    {<<tag, f>> : f \in
        {g \in fail : \/ g = "jofotara_status" /\ StatusRaised(fail)
                      \/ g = "jofotara_error" /\ ErrorTried(err, fail)}}

SetStatusLocs(i, err, fail) ==
    (IF StatusWritten(fail) THEN {<<"Sales Invoice", i, "jofotara_status">>} ELSE {})
    \cup (IF ErrorWritten(err, fail)
          THEN {<<"Sales Invoice", i, "jofotara_error">>} ELSE {})

\* an exception leaves send_now: to the caller, or into the hook's except
RaisedPc(i) == IF via[i] = "hook" THEN "hook_except" ELSE "raised"

(***************************************************************************)
(* send_now(name), called by an operator.                                  *)
(***************************************************************************)
SendNow(i, limit) ==
    /\ pc[i] = "idle"
    /\ attempts[i] < limit
    /\ pc' = [pc EXCEPT ![i] = "build"]
    /\ via' = [via EXCEPT ![i] = "manual"]
    /\ attempts' = [attempts EXCEPT ![i] = @ + 1]
    /\ UNCHANGED <<db, xml, resp, exc, reply, requested, read, hist>>

(***************************************************************************)
(* on_submit_sales_invoice(doc): the host calls it once, when the invoice  *)
(* is submitted; s is JoFotara Settings as read then.                      *)
(***************************************************************************)
OnSubmit(i, limit, s) ==
    /\ pc[i] = "idle"
    /\ attempts[i] < limit
    /\ docstatus[i] = 0
    /\ docstatus' = [docstatus EXCEPT ![i] = 1]
    /\ pc' = [pc EXCEPT ![i] = IF HookEnabled(s) THEN "build" ELSE "returned"]
    /\ via' = [via EXCEPT ![i] = "hook"]
    /\ read' = [read EXCEPT ![i].toggles_off =
           s.send_on_submit = 0 /\ s.auto_send_on_submit = 0]
    /\ attempts' = [attempts EXCEPT ![i] = @ + 1]
    /\ UNCHANGED <<jofotara_status, jofotara_uuid, jofotara_qr, jofotara_error,
                   jofotara_sent_at, jofotara_xml, n_comments, files,
                   last_response, last_xml, meta, doc,
                   xml, resp, exc, reply, requested, hist>>

(***************************************************************************)
(* build_invoice_xml(doc.name): ok = FALSE is an exception inside the      *)
(* build (or the empty output send_now throws on).                         *)
(***************************************************************************)
BuildInvoiceXml(i, gen, raw_activity, ok, fail) ==
    /\ pc[i] = "build"
    /\ IF ok
       THEN LET x == [id |-> i, uuid |-> UuidValue(jofotara_uuid[i], gen),
                     amounts |-> InvoiceAmounts(doc[i]),
                     children |-> TopLevelChildren(doc[i], raw_activity),
                     str |-> XmlText(doc[i])]
                w == HasField("last_xml") /\ "last_xml" \notin fail
            IN  /\ xml' = [xml EXCEPT ![i] = x]
                /\ emitted' = [emitted EXCEPT ![i] = x.uuid]
                /\ last_xml' = IF w THEN x ELSE last_xml
                /\ writers' = IF w
                       THEN Wrote(writers, {<<"JoFotara Settings", "", "last_xml">>}, i)
                       ELSE writers
                /\ failed' = [failed EXCEPT ![i] = @ \cup
                       {<<"build", f>> : f \in fail \cap meta}]
                /\ pc' = [pc EXCEPT ![i] = "snapshot"]
                /\ read' = [read EXCEPT ![i].activity_number = raw_activity]
                /\ exc' = exc
       ELSE /\ fail = {}
            /\ exc' = [exc EXCEPT ![i] = TransformExc]
            /\ pc' = [pc EXCEPT ![i] = RaisedPc(i)]
            /\ UNCHANGED <<xml, emitted, last_xml, writers, failed, read>>
    /\ UNCHANGED <<jofotara_status, jofotara_uuid, jofotara_qr, jofotara_error,
                   jofotara_sent_at, jofotara_xml, n_comments, docstatus, files,
                   last_response, meta, doc, via, resp, reply, requested, attempts,
                   attempted>>

(***************************************************************************)
(* _save_xml_snapshot(doc, xml_min): the field, the File, then last_xml;   *)
(* a failure of the first two skips what follows.                          *)
(***************************************************************************)
SaveXmlSnapshot(i, fail) ==
    /\ pc[i] = "snapshot"
    /\ LET field_tried == HasField("jofotara_xml")
           field_ok == field_tried /\ "jofotara_xml" \notin fail
           file_tried == ~(field_tried /\ ~field_ok)
           file_ok == file_tried /\ "File" \notin fail
           last_tried == file_ok /\ HasField("last_xml")
           last_ok == last_tried /\ "last_xml" \notin fail
       IN  /\ jofotara_xml' =
                  IF field_ok THEN [jofotara_xml EXCEPT ![i] = Minified(xml[i])] ELSE jofotara_xml
           /\ files' = IF file_ok THEN [files EXCEPT ![FileName(i)] = Minified(xml[i])] ELSE files
           /\ last_xml' = IF last_ok THEN Minified(xml[i]) ELSE last_xml
           /\ writers' = Wrote(writers,
                  (IF field_ok THEN {<<"Sales Invoice", i, "jofotara_xml">>} ELSE {})
                  \cup (IF file_ok
                        THEN {<<"File", FileName(i)[1], FileName(i)[2]>>} ELSE {})
                  \cup (IF last_ok THEN {<<"JoFotara Settings", "", "last_xml">>} ELSE {}),
                  i)
           /\ failed' = [failed EXCEPT ![i] = @ \cup
                  {<<"snapshot", f>> : f \in
                      {g \in fail : \/ g = "jofotara_xml" /\ field_tried
                                    \/ g = "File" /\ file_tried
                                    \/ g = "last_xml" /\ last_tried}}]
    /\ pc' = [pc EXCEPT ![i] = "post"]
    /\ UNCHANGED <<jofotara_status, jofotara_uuid, jofotara_qr, jofotara_error,
                   jofotara_sent_at, n_comments, docstatus, last_response, meta, doc,
                   via, read, xml, resp, exc, reply, requested, attempts,
                   attempted, emitted>>

(***************************************************************************)
(* What requests.post may do: raise, or return a response with a status    *)
(* and a body that is JSON or not.                                         *)
(***************************************************************************)
StatusCodes == {200, HttpErrorFrom}
NetErrors(elens) ==
    [ok : {FALSE}, elen : elens, status : {0}, is_json : {FALSE},
     fields : {EmptyFields}, text : {""}, len : {0}]
JsonResponses(envelopes, lens) ==
    [ok : {TRUE}, elen : {0}, status : StatusCodes, is_json : {TRUE},
     fields : envelopes, text : {""}, len : lens]
TextResponses(lens) ==
    [ok : {TRUE}, elen : {0}, status : StatusCodes, is_json : {FALSE},
     fields : {EmptyFields}, text : {"T"}, len : lens]
NetOutcomes(envelopes, lens, elens) ==
    NetErrors(elens) \cup JsonResponses(envelopes, lens) \cup TextResponses(lens)

(***************************************************************************)
(* post_invoice(b64), first half: the settings are read and the headers    *)
(* built; a configuration error is thrown before requests.post, and        *)
(* send_now's except marks the invoice Error and raises again.             *)
(* sent_first = TRUE would be a client that posts before it validates.     *)
(***************************************************************************)
PostHeadersStep(i, s, fail, sent_first) ==
    /\ pc[i] = "post"
    /\ LET h == BuildHeaders(s)
           thrown == ConfigExc(h.err)
       IN  IF h.err # 0
           THEN /\ requested' = [requested EXCEPT ![i] = sent_first]
                /\ exc' = [exc EXCEPT ![i] = thrown]
                /\ SetStatus(i, "Error", thrown, fail)
                /\ failed' = [failed EXCEPT ![i] =
                       @ \cup SetStatusFailed(thrown, fail, "except")]
                /\ writers' = Wrote(writers, SetStatusLocs(i, thrown, fail), i)
                /\ pc' = [pc EXCEPT ![i] = RaisedPc(i)]
           ELSE /\ fail = {}
                /\ pc' = [pc EXCEPT ![i] = "request"]
                /\ UNCHANGED <<requested, exc, jofotara_status, jofotara_error,
                               failed, writers>>
    /\ UNCHANGED <<jofotara_uuid, jofotara_qr, jofotara_sent_at, jofotara_xml,
                   n_comments, docstatus, files, last_response, last_xml, meta, doc,
                   via, read, xml, resp, reply, attempts, attempted, emitted>>

PostHeaders_AfterRequest(i, s, fail) == PostHeadersStep(i, s, fail, TRUE)
PostHeaders(i, s, fail) == PostHeadersStep(i, s, fail, FALSE)

(***************************************************************************)
(* post_invoice(b64), second half: the request, the preview in Settings,   *)
(* the throw on a status >= 400; and send_now's except.                    *)
(***************************************************************************)
PostRequest(i, net, fail) ==
    /\ pc[i] = "request"
    /\ LET data == ParseBody(net.is_json, net.fields, net.text, net.len)
           stored == net.ok /\ "last_response" \notin fail
           thrown == IF ~net.ok THEN NetworkExc(net.elen)
                     ELSE IF HttpFails(net.status) THEN HttpExc(net.status, data)
                     ELSE NoExc
           raises == thrown # NoExc
           sfail == IF raises THEN fail ELSE {}
       IN  /\ requested' = [requested EXCEPT ![i] = TRUE]
           /\ reply' = [reply EXCEPT ![i] =
                  IF net.ok THEN [status |-> net.status, data |-> data] ELSE NoReply]
           /\ last_response' = IF stored THEN PreviewOf(data) ELSE last_response
           /\ exc' = [exc EXCEPT ![i] = thrown]
           /\ resp' = [resp EXCEPT ![i] = IF raises THEN NoData ELSE data]
           /\ pc' = [pc EXCEPT ![i] = IF raises THEN RaisedPc(i) ELSE "apply"]
           /\ IF raises
              THEN SetStatus(i, "Error", thrown, fail)
              ELSE UNCHANGED <<jofotara_status, jofotara_error>>
           /\ failed' = [failed EXCEPT ![i] = @
                  \cup (IF net.ok /\ ~stored THEN {<<"post", "last_response">>} ELSE {})
                  \cup SetStatusFailed(thrown, sfail, "except")]
           /\ writers' = Wrote(writers,
                  (IF stored THEN {<<"JoFotara Settings", "", "last_response">>} ELSE {})
                  \cup (IF raises THEN SetStatusLocs(i, thrown, fail) ELSE {}), i)
    /\ UNCHANGED <<jofotara_uuid, jofotara_qr, jofotara_sent_at, jofotara_xml,
                   n_comments, docstatus, files, last_xml, meta, doc,
                   via, read, xml, attempts, attempted, emitted>>

(***************************************************************************)
(* _apply_response_to_invoice(doc, resp), then send_now returns resp.      *)
(* uuid, qr and sent_at share one try block; the status, the comment and   *)
(* the preview have one each.                                              *)
(***************************************************************************)
ApplyResponse(i, fail) ==
    /\ pc[i] = "apply"
    /\ LET uuid == ExtractUuid(resp[i])
           qr == ExtractQr(resp[i])
           uuid_tried == uuid # "" /\ HasField("jofotara_uuid")
           uuid_raised == uuid_tried /\ "jofotara_uuid" \in fail
           qr_tried == ~uuid_raised /\ qr # "" /\ HasField("jofotara_qr")
           qr_raised == qr_tried /\ "jofotara_qr" \in fail
           sent_tried == ~uuid_raised /\ ~qr_raised /\ HasField("jofotara_sent_at")
           sent_raised == sent_tried /\ "jofotara_sent_at" \in fail
           comment_ok == "comment" \notin fail
           preview_ok == "last_response" \notin fail
       IN  /\ jofotara_uuid' =
                  IF uuid_tried /\ ~uuid_raised
                  THEN [jofotara_uuid EXCEPT ![i] = uuid] ELSE jofotara_uuid
           /\ jofotara_qr' =
                  IF qr_tried /\ ~qr_raised
                  THEN [jofotara_qr EXCEPT ![i] = qr] ELSE jofotara_qr
           /\ jofotara_sent_at' =
                  IF sent_tried /\ ~sent_raised
                  THEN [jofotara_sent_at EXCEPT ![i] = attempts[i]]
                  ELSE jofotara_sent_at
           /\ SetStatus(i, ReconciledStatus(uuid, qr), NoExc, fail)
           /\ n_comments' = IF comment_ok THEN [n_comments EXCEPT ![i] = @ + 1]
                            ELSE n_comments
           /\ last_response' = IF preview_ok THEN PreviewOf(resp[i]) ELSE last_response
           /\ attempted' = [attempted EXCEPT ![i] =
                  (IF uuid_tried THEN {"jofotara_uuid"} ELSE {})
                  \cup (IF qr_tried THEN {"jofotara_qr"} ELSE {})
                  \cup (IF sent_tried THEN {"jofotara_sent_at"} ELSE {})
                  \cup (IF HasField("jofotara_status") THEN {"jofotara_status"} ELSE {})
                  \cup {"comment", "last_response"}]
           /\ failed' = [failed EXCEPT ![i] = @
                  \cup {<<"apply", f>> : f \in
                         {g \in fail : \/ g = "jofotara_uuid" /\ uuid_tried
                                       \/ g = "jofotara_qr" /\ qr_tried
                                       \/ g = "jofotara_sent_at" /\ sent_tried
                                       \/ g \in {"comment", "last_response"}}}
                  \cup SetStatusFailed(NoExc, fail, "apply")]
           /\ writers' = Wrote(writers,
                  (IF uuid_tried /\ ~uuid_raised
                   THEN {<<"Sales Invoice", i, "jofotara_uuid">>} ELSE {})
                  \cup (IF qr_tried /\ ~qr_raised
                        THEN {<<"Sales Invoice", i, "jofotara_qr">>} ELSE {})
                  \cup (IF sent_tried /\ ~sent_raised
                        THEN {<<"Sales Invoice", i, "jofotara_sent_at">>} ELSE {})
                  \cup SetStatusLocs(i, NoExc, fail)
                  \cup (IF comment_ok THEN {<<"Sales Invoice", i, "comment">>} ELSE {})
                  \cup (IF preview_ok
                        THEN {<<"JoFotara Settings", "", "last_response">>} ELSE {}), i)
    /\ pc' = [pc EXCEPT ![i] = "returned"]
    /\ UNCHANGED <<jofotara_xml, docstatus, files, last_xml, meta, doc,
                   via, read, xml, resp, exc, reply, requested, attempts, emitted>>

(***************************************************************************)
(* The except of on_submit_sales_invoice: mark the invoice Error with      *)
(* str(e) and return normally.                                             *)
(***************************************************************************)
HookExcept(i, fail) ==
    /\ pc[i] = "hook_except"
    /\ SetStatus(i, "Error", exc[i], fail)
    /\ failed' = [failed EXCEPT ![i] = @ \cup SetStatusFailed(exc[i], fail, "hook")]
    /\ writers' = Wrote(writers, SetStatusLocs(i, exc[i], fail), i)
    /\ pc' = [pc EXCEPT ![i] = "returned"]
    /\ UNCHANGED <<jofotara_uuid, jofotara_qr, jofotara_sent_at, jofotara_xml,
                   n_comments, docstatus, files, last_response, last_xml, meta, doc,
                   via, read, xml, resp, exc, reply, requested, attempts,
                   attempted, emitted>>

(***************************************************************************)
(* The caller has the result (the response, or the exception): the send    *)
(* is over and its locals are gone.                                        *)
(***************************************************************************)
Finish(i) ==
    /\ pc[i] \in {"returned", "raised"}
    /\ pc' = [pc EXCEPT ![i] = "idle"]
    /\ via' = [via EXCEPT ![i] = "none"]
    /\ xml' = [xml EXCEPT ![i] = NoXml]
    /\ resp' = [resp EXCEPT ![i] = NoData]
    /\ exc' = [exc EXCEPT ![i] = NoExc]
    /\ reply' = [reply EXCEPT ![i] = NoReply]
    /\ requested' = [requested EXCEPT ![i] = FALSE]
    /\ read' = [read EXCEPT ![i] = NothingRead]
    /\ failed' = [failed EXCEPT ![i] = {}]
    /\ attempted' = [attempted EXCEPT ![i] = {}]
    /\ UNCHANGED <<db, attempts, emitted, writers>>

(***************************************************************************)
(* Spec: the sends of one invoice, one after the other, over a database    *)
(* that takes every write; every outcome of the settings and the network,  *)
(* with bodies and messages longer than the limits they are cut to.        *)
(***************************************************************************)
Next ==
    \E i \in SeqInvoices :
        \/ SendNow(i, MaxAttempts)
        \/ \E s \in ToggleDomain : OnSubmit(i, MaxAttempts, s)
        \/ \E gen \in GenUUIDs, ok \in BOOLEAN : BuildInvoiceXml(i, gen, SampleActivity, ok, {})
        \/ SaveXmlSnapshot(i, {})
        \/ \E s \in SettingsDomain : PostHeaders(i, s, {})
        \/ \E net \in NetOutcomes(JsonEnvelopes, LongBodies, LongErrors) :
               PostRequest(i, net, {})
        \/ ApplyResponse(i, {})
        \/ HookExcept(i, {})
        \/ Finish(i)

Spec == Init /\ [][Next]_vars

(***************************************************************************)
(* SpecFaulty: one send of an invoice over a database that may refuse any  *)
(* of the writes.  The invoice is new, or as earlier sends left it: failed *)
(* (Error), accepted (Submitted with the authority's UUID), or accepted    *)
(* and then failed again; Settings holds no preview or an earlier one.     *)
(***************************************************************************)
PriorStates ==
    {[status |-> "Pending", uuid |-> "", err |-> FALSE],
     [status |-> "Error", uuid |-> "", err |-> TRUE],
     [status |-> "Submitted", uuid |-> "X", err |-> FALSE],
     [status |-> "Error", uuid |-> "X", err |-> TRUE]}
EarlierBody == ParseBody(FALSE, EmptyFields, "T0", PreviewLimit)

InitFaulty ==
    /\ InitRest
    /\ \E p \in PriorStates :
        /\ jofotara_status = [i \in Invoices |-> p.status]
        /\ jofotara_uuid = [i \in Invoices |-> p.uuid]
        /\ jofotara_error = [i \in Invoices |->
               IF p.err /\ HasField("jofotara_error")
               THEN ErrorText(NetworkExc(ErrorLimit)) ELSE NoExc]
    /\ jofotara_qr = [i \in Invoices |-> ""]
    /\ last_response \in {NoPreview, PreviewOf(EarlierBody)}
    /\ doc = [i \in Invoices |-> SampleDoc]

NextFaulty ==
    \E i \in SeqInvoices :
        \/ SendNow(i, 1)
        \/ \E s \in ToggleDomain : OnSubmit(i, 1, s)
        \/ \E ok \in BOOLEAN, fail \in Faulty({"last_xml"}) :
               BuildInvoiceXml(i, "g1", SampleActivity, ok, fail)
        \/ \E fail \in Faulty({"jofotara_xml", "File", "last_xml"}) :
               SaveXmlSnapshot(i, fail)
        \/ \E s \in SettingsDomain,
              fail \in Faulty({"jofotara_status", "jofotara_error"}) :
               PostHeaders(i, s, fail)
        \/ \E net \in NetOutcomes(JsonEnvelopes, BodyLens, NetErrLens),
              fail \in Faulty({"last_response", "jofotara_status", "jofotara_error"}) :
               PostRequest(i, net, fail)
        \/ \E fail \in Faulty({"jofotara_uuid", "jofotara_qr", "jofotara_sent_at",
                               "jofotara_status", "comment", "last_response"}) :
               ApplyResponse(i, fail)
        \/ \E fail \in Faulty({"jofotara_status", "jofotara_error"}) :
               HookExcept(i, fail)
        \/ Finish(i)

SpecFaulty == InitFaulty /\ [][NextFaulty]_vars

(***************************************************************************)
(* SpecConc: the sends of two invoices, interleaved step by step (two      *)
(* workers of the site), over a database that takes every write.           *)
(***************************************************************************)
GoodSettings ==
    [use_oauth2 |-> 1, client_id |-> "c", secret_key |-> "s",
     device_user |-> "", device_secret |-> "", activity_number |-> Ones(1)]
ConcSettings == {GoodSettings, [GoodSettings EXCEPT !.secret_key = ""]}
ConcOutcomes ==
    NetOutcomes({EmptyFields, BothFields}, {PreviewLimit}, {1})

NextConc ==
    \E i \in Invoices :
        \/ SendNow(i, ConcAttempts)
        \/ \E s \in ToggleDomain : OnSubmit(i, ConcAttempts, s)
        \/ \E ok \in BOOLEAN : BuildInvoiceXml(i, "g1", SampleActivity, ok, {})
        \/ SaveXmlSnapshot(i, {})
        \/ \E s \in ConcSettings : PostHeaders(i, s, {})
        \/ \E net \in ConcOutcomes : PostRequest(i, net, {})
        \/ ApplyResponse(i, {})
        \/ HookExcept(i, {})
        \/ Finish(i)

SpecConc == Init /\ [][NextConc]_vars

(***************************************************************************)
(* SpecXml: the build of one invoice, for every document of up to MaxLines *)
(* lines.                                                                  *)
(***************************************************************************)
InitXml ==
    /\ jofotara_status = [i \in Invoices |-> "Pending"]
    /\ jofotara_uuid = [i \in Invoices |-> ""]
    /\ jofotara_qr = [i \in Invoices |-> ""]
    /\ jofotara_error = [i \in Invoices |-> NoExc]
    /\ last_response = NoPreview
    /\ \E d \in Docs(MaxLines) : doc = [i \in Invoices |-> d]
    /\ InitRest

NextXml ==
    \E i \in SeqInvoices :
        \/ SendNow(i, 1)
        \/ \E a \in ActivitySamples, ok \in BOOLEAN :
               BuildInvoiceXml(i, "g1", a, ok, {})

SpecXml == InitXml /\ [][NextXml]_vars

(***************************************************************************)
(* SpecMinify: the build and the minified snapshot of one invoice of one   *)
(* line, for every item name of up to MaxNameLen characters.               *)
(***************************************************************************)
NameChars == {"a", " ", "\t", "<", ">"}
Names(n) == UNION {[1..k -> NameChars] : k \in 0..n}
NamedDoc(name) == [SampleDoc EXCEPT !.items[1].item_name = name]

InitMinify ==
    /\ jofotara_status = [i \in Invoices |-> "Pending"]
    /\ jofotara_uuid = [i \in Invoices |-> ""]
    /\ jofotara_qr = [i \in Invoices |-> ""]
    /\ jofotara_error = [i \in Invoices |-> NoExc]
    /\ last_response = NoPreview
    /\ \E name \in Names(MaxNameLen) : doc = [i \in Invoices |-> NamedDoc(name)]
    /\ InitRest

NextMinify ==
    \E i \in SeqInvoices :
        \/ SendNow(i, 1)
        \/ \E ok \in BOOLEAN : BuildInvoiceXml(i, "g1", SampleActivity, ok, {})
        \/ SaveXmlSnapshot(i, {})

SpecMinify == InitMinify /\ [][NextMinify]_vars

(***************************************************************************)
(* SpecEnvelope: one send of an invoice on a configured site, answered     *)
(* with every envelope that has any of the known field names, each with a  *)
(* value of its own; the writes of the UUID and of the QR may raise.       *)
(***************************************************************************)
KeyedEnvelopes ==
    {[k \in Keys |-> IF k \in present THEN k ELSE ""] :
        present \in SUBSET (Keys \ {"text"})}

NextEnvelope ==
    \E i \in SeqInvoices :
        \/ SendNow(i, 1)
        \/ BuildInvoiceXml(i, "g1", SampleActivity, TRUE, {})
        \/ SaveXmlSnapshot(i, {})
        \/ PostHeaders(i, GoodSettings, {})
        \/ \E net \in JsonResponses(KeyedEnvelopes, {PreviewLimit}) :
               PostRequest(i, net, {})
        \/ \E fail \in Faulty({"jofotara_uuid", "jofotara_qr"}) :
               ApplyResponse(i, fail)
        \/ Finish(i)

SpecEnvelope == Init /\ [][NextEnvelope]_vars

(***************************************************************************)
(* Properties of the send protocol.                                        *)
(***************************************************************************)
\* send returned the envelope to its caller: the reconciliation has run
Reconciled(i) == pc[i] = "returned" /\ reply[i].status # 0 /\ exc[i] = NoExc
\* the envelope has a non-empty value under one of the known field names
YieldsIdentifier(data) ==
    \E k \in Range(UuidKeys) \cup Range(QrKeys) : data.fields[k] # ""
StatusFor(data) == IF YieldsIdentifier(data) THEN "Submitted" ELSE "Error"

C2_NoBackwardTransition ==
    [][\A i \in SeqInvoices :
          jofotara_status[i] = "Submitted" => jofotara_status'[i] = "Submitted"]_vars

\* C3: whenever the submission raised (configuration, network, HTTP), the
\* invoice is Error, its error text is the message cut to 1000 characters,
\* and send did not return a response.
SubmissionRaised(i) == exc[i].kind \in {"config", "network", "http"}
C3_FailureMarkedAndStored ==
    \A i \in SeqInvoices :
        SubmissionRaised(i) =>
            /\ jofotara_status[i] = "Error"
            /\ jofotara_error[i] = [exc[i] EXCEPT !.len = Min(exc[i].len, ErrorLimit)]
            /\ resp[i] = NoData
            /\ pc[i] \in {"raised", "hook_except", "returned"}
            /\ via[i] = "manual" => pc[i] = "raised"

C5_NoRequestBeforeConfigError ==
    \A i \in SeqInvoices :
        exc[i].kind \in {"config", "transform"} => ~requested[i]

C5_Witness ==
    \E i \in SeqInvoices :
        exc[i].kind = "config" /\ exc[i].code = 3 /\ pc[i] = "raised"

\* C6: in a reconciliation every write that is due (the UUID and the QR the
\* envelope yields, the sent-at time, the status, the comment) is attempted,
\* whichever of the other writes raised.
DueWrites(i) ==
    (IF ExtractUuid(resp[i]) # "" /\ HasField("jofotara_uuid")
     THEN {"jofotara_uuid"} ELSE {})
    \cup (IF ExtractQr(resp[i]) # "" /\ HasField("jofotara_qr")
          THEN {"jofotara_qr"} ELSE {})
    \cup (IF HasField("jofotara_sent_at") THEN {"jofotara_sent_at"} ELSE {})
    \cup {"jofotara_status", "comment"}
C6_WritesIndependent ==
    \A i \in SeqInvoices : Reconciled(i) => DueWrites(i) \subseteq attempted[i]

\* C7: the UUID the build emits for an invoice never changes from one send
\* to the next.
C7_EmittedUuidStable ==
    [][\A i \in SeqInvoices :
          emitted[i] # "" => emitted'[i] = emitted[i]]_vars

\* C8 as stated: after every submission request (answered or failed at the
\* network), also when no write raised, last_response holds that request's
\* body cut to 1400 characters.
RequestDone(i) ==
    requested[i] /\ pc[i] \in {"apply", "raised", "hook_except", "returned"}
HoldsPreviewOfReply(i) ==
    /\ last_response.set
    /\ last_response.data = reply[i].data
    /\ last_response.len = Min(reply[i].data.len, PreviewLimit)
C10_InclusiveIsExclusivePlusTax ==
    \A i \in SeqInvoices :
        xml[i] # NoXml =>
            /\ xml[i].amounts.TaxInclusiveAmount =
                   xml[i].amounts.TaxExclusiveAmount + xml[i].amounts.TaxAmount
            /\ xml[i].amounts.PayableAmount = xml[i].amounts.TaxInclusiveAmount


\* C11: in every XML the build wrote, the written header TaxAmount is the sum
\* of the written line TaxAmounts (each line VAT rounded first, then summed).
C11_HeaderVatIsSumOfLineVats ==
    \A i \in SeqInvoices :
        xml[i] # NoXml =>
            xml[i].amounts.TaxAmount =
                SumOf([k \in 1..Len(xml[i].amounts.lines) |->
                          xml[i].amounts.lines[k].TaxAmount])


\* C12: in every XML the build wrote for a credit note, the written line
\* quantities, prices and line allowances and the written header allowance
\* (AllowanceCharge Amount, AllowanceTotalAmount) are not negative.
C12_CreditNoteNonNegative ==
    \A i \in SeqInvoices :
        xml[i] # NoXml /\ xml[i].amounts.is_return =>
            /\ \A k \in 1..Len(xml[i].amounts.lines) :
                   /\ xml[i].amounts.lines[k].InvoicedQuantity >= 0
                   /\ xml[i].amounts.lines[k].PriceAmount >= 0
                   /\ xml[i].amounts.lines[k].AllowanceAmount >= 0
            /\ xml[i].amounts.AllowanceChargeAmount >= 0
            /\ xml[i].amounts.AllowanceTotalAmount >= 0

\* the part of C12 about the lines alone
C12_Lines ==
    \A i \in SeqInvoices :
        xml[i] # NoXml /\ xml[i].amounts.is_return =>
            \A k \in 1..Len(xml[i].amounts.lines) :
                /\ xml[i].amounts.lines[k].InvoicedQuantity >= 0
                /\ xml[i].amounts.lines[k].PriceAmount >= 0
                /\ xml[i].amounts.lines[k].AllowanceAmount >= 0


\* C13: the children of the root of every XML the build wrote are, in this
\* order: ProfileID, ID, UUID, IssueDate, InvoiceTypeCode,
\* DocumentCurrencyCode, TaxCurrencyCode, BillingReference (credit note
\* only), AdditionalDocumentReference, AccountingSupplierParty,
\* AccountingCustomerParty, SellerSupplierParty (only when the configured
\* activity number has a digit), PaymentMeans (credit note only),
\* AllowanceCharge, TaxTotal, LegalMonetaryTotal, then one InvoiceLine per
\* item, line k carrying the quantity of item k.
RootOrder ==
    <<"ProfileID", "ID", "UUID", "IssueDate", "InvoiceTypeCode",
      "DocumentCurrencyCode", "TaxCurrencyCode", "BillingReference",
      "AdditionalDocumentReference", "AccountingSupplierParty",
      "AccountingCustomerParty", "SellerSupplierParty", "PaymentMeans",
      "AllowanceCharge", "TaxTotal", "LegalMonetaryTotal">>
IsHeaderChild(tag) == tag # "InvoiceLine"
C13_RootChildrenInOrder ==
    \A i \in SeqInvoices :
        xml[i] # NoXml =>
            LET c == xml[i].children
                head == SelectSeq(c, IsHeaderChild)
                n == Len(doc[i].items)
                Pos(tag) == CHOOSE k \in 1..Len(RootOrder) : RootOrder[k] = tag
            IN  /\ Len(c) = Len(head) + n
                /\ \A k \in 1..Len(head) : c[k] = head[k] /\ head[k] \in Range(RootOrder)
                /\ \A k \in 1..(Len(head) - 1) : Pos(head[k]) < Pos(head[k + 1])
                /\ \A tag \in Range(RootOrder) \ {"BillingReference", "PaymentMeans",
                                                   "SellerSupplierParty"} :
                       tag \in Range(head)
                /\ ("BillingReference" \in Range(head)) = doc[i].is_return
                /\ ("PaymentMeans" \in Range(head)) = doc[i].is_return
                /\ "SellerSupplierParty" \in Range(head) <=>
                       \E k \in 1..Len(read[i].activity_number) :
                           read[i].activity_number[k] \in Digits
                /\ Len(xml[i].amounts.lines) = n
                /\ \A k \in 1..n :
                       xml[i].amounts.lines[k].InvoicedQuantity =
                           (IF doc[i].is_return /\ doc[i].items[k].qty < 0
                            THEN -doc[i].items[k].qty ELSE doc[i].items[k].qty)


C13_Witness ==
    \E i \in SeqInvoices :
        /\ pc[i] = "snapshot"
        /\ doc[i].is_return
        /\ Len(doc[i].items) = 2
        /\ doc[i].items[1].qty # doc[i].items[2].qty
        /\ read[i].activity_number = <<"1", "-", "2">>
        /\ Len(xml[i].children) = 18


\* C14: the text of every element of the minified XML that send stores and
\* submits is the text of that element in the XML the build produced.
RECURSIVE TextBetweenTags(_, _)
TextBetweenTags(s, in_tag) ==
    IF s = <<>> THEN <<>>
    ELSE IF in_tag
         THEN IF Head(s) = ">" THEN TextBetweenTags(Tail(s), FALSE)
              ELSE TextBetweenTags(Tail(s), TRUE)
    ELSE IF Head(s) = "<" THEN <<"<>">> \o TextBetweenTags(Tail(s), TRUE)
    ELSE <<Head(s)>> \o TextBetweenTags(Tail(s), FALSE)
C14_MinifyKeepsElementText ==
    \A i \in SeqInvoices :
        pc[i] = "post" =>
            TextBetweenTags(files[FileName(i)].str, FALSE) =
                TextBetweenTags(xml[i].str, FALSE)

\* the part of C14 that holds: a text without a tab, a line break or two
\* spaces in a row is kept, the characters "> <" included
C14_PlainTextKept ==
    \A i \in SeqInvoices :
        /\ pc[i] = "post"
        /\ \A k \in 1..Len(xml[i].str) :
               /\ xml[i].str[k] \notin {"\t", "\n", "\r"}
               /\ k > 1 => ~(xml[i].str[k - 1] = " " /\ xml[i].str[k] = " ")
        => files[FileName(i)].str = xml[i].str


\* the value of the first name in keys under which the envelope has a value
FirstValue(fields, keys) ==
    IF \A k \in 1..Len(keys) : fields[keys[k]] = "" THEN ""
    ELSE fields[keys[CHOOSE k \in 1..Len(keys) :
                        /\ fields[keys[k]] # ""
                        /\ \A j \in 1..(k - 1) : fields[keys[j]] = ""]]

C16_SubmittedHoldsIdentifier ==
    /\ [](\A i \in SeqInvoices :
             jofotara_status[i] = "Submitted" =>
                 jofotara_uuid[i] # "" \/ jofotara_qr[i] # "")
    /\ [][\A i \in SeqInvoices :
             /\ jofotara_uuid[i] # "" => jofotara_uuid'[i] # ""
             /\ jofotara_qr[i] # "" => jofotara_qr'[i] # ""]_vars

C16_Witness ==
    \E i \in SeqInvoices :
        /\ pc[i] = "returned"
        /\ attempts[i] = 2
        /\ resp[i].fields = OneField("qr", "X")
        /\ jofotara_status[i] = "Submitted"
        /\ jofotara_uuid[i] = "X"
        /\ jofotara_qr[i] = "X"


\* what C17 says of a hook that found both toggles off: it has returned,
\* has issued no request and has written nothing
HookOffDidNothing(i) ==
    via[i] = "hook" /\ read[i].toggles_off =>
        /\ pc[i] = "returned"
        /\ ~requested[i]
        /\ xml[i] = NoXml
        /\ \A l \in Locations : i \notin writers[l]
HookFailed(i) == via[i] = "hook" /\ pc[i] = "returned" /\ exc[i] # NoExc

====
